---- MODULE Spec2Model ----
(***************************************************************************)
(* Platform dispatch of the BLAKE3 hashing engine (src/src/platform.rs).   *)
(*                                                                         *)
(* The state is the build configuration and processor the library runs on, *)
(* the Platform value and the arguments a caller holds, and the last       *)
(* operation with the call it forwarded and what came back.                *)
(* The implementation modules (portable, sse41, avx2) and the Flags type   *)
(* live outside platform.rs; they are modelled from the specification.     *)
(***************************************************************************)
EXTENDS Integers, Sequences, FiniteSets, TLC

VARIABLES
    arch,       \* target_arch of the build: "x86", "x86_64" or "other"
    std,        \* cargo feature "std" enabled
    tf_sse41,   \* cfg(target_feature = "sse4.1") of the build
    tf_avx2,    \* cfg(target_feature = "avx2") of the build
    cpu_sse41,  \* the processor reports and executes SSE4.1
    cpu_avx2,   \* the processor reports and executes AVX2
    platform,   \* the Platform value the caller holds, and where it came from
    detected,   \* what each detect() call so far has returned, in order
    op,         \* the last operation
    args,       \* the arguments the caller holds for a compress or hash_many call
    call,       \* the implementation call it forwarded
    ret         \* what it returned

vars == <<arch, std, tf_sse41, tf_avx2, cpu_sse41, cpu_avx2,
          args, platform, detected, op, call, ret>>

config == <<arch, std, tf_sse41, tf_avx2, cpu_sse41, cpu_avx2>>

---------------------------------------------------------------------------
(* Bounds of the model *)

\* most inputs one hash_many call is given
MaxInputs == 9
\* most blocks in one input (A::CAPACITY / BLOCK_LEN)
MaxBlocks == 3
\* most detect() calls followed in one run
MaxDetects == 2

---------------------------------------------------------------------------
(* Build configuration *)

Archs == {"x86", "x86_64", "other"}

\* #[cfg(any(target_arch = "x86", target_arch = "x86_64"))]
IsX86 == arch \in {"x86", "x86_64"}

\* variation: the constant left at the SSE4.1 width
MAX_SIMD_DEGREE_sse41 == IF IsX86 THEN 4 ELSE 1

\* pub const MAX_SIMD_DEGREE
MAX_SIMD_DEGREE == IF IsX86 THEN 8 ELSE 1

\* length of the offset_deltas table, &[u64; 16]
OFFSET_DELTAS_LEN == 16

\* pub enum Platform: the variants that exist in this build
Platform == IF IsX86 THEN {"Portable", "SSE41", "AVX2"} ELSE {"Portable"}

NoPlatform == [variant |-> "none", origin |-> "none"]

---------------------------------------------------------------------------
(* Capability detection *)

\* is_x86_feature_detected!("avx2") / ("sse4.1")
is_x86_feature_detected(feature) ==
    CASE feature = "avx2"   -> cpu_avx2
      [] feature = "sse4.1" -> cpu_sse41

\* variation: a runtime probe that answers only the first time it is asked
avx2_detected_once ==
    IF tf_avx2 THEN TRUE
    ELSE IF std /\ is_x86_feature_detected("avx2") /\ detected = <<>> THEN TRUE
    ELSE FALSE

avx2_detected ==
    IF tf_avx2 THEN TRUE
    ELSE IF std /\ is_x86_feature_detected("avx2") THEN TRUE
    ELSE FALSE

sse41_detected ==
    IF tf_sse41 THEN TRUE
    ELSE IF std /\ is_x86_feature_detected("sse4.1") THEN TRUE
    ELSE FALSE

\* variation: the two probes in the opposite order
detect_sse41_first ==
    IF IsX86 /\ sse41_detected THEN "SSE41"
    ELSE IF IsX86 /\ avx2_detected THEN "AVX2"
    ELSE "Portable"

\* Platform::detect
detect ==
    IF IsX86 /\ avx2_detected THEN "AVX2"
    ELSE IF IsX86 /\ sse41_detected THEN "SSE41"
    ELSE "Portable"

\* variation: the two accelerated degrees exchanged
simd_degree_swapped(self) ==
    CASE self = "Portable" -> 1
      [] self = "SSE41"    -> 8
      [] self = "AVX2"     -> 4

\* variation: each accelerated degree half of what its module takes
simd_degree_halved(self) ==
    CASE self = "Portable" -> 1
      [] self = "SSE41"    -> 2
      [] self = "AVX2"     -> 4

\* Platform::simd_degree, the value of `degree`
simd_degree(self) ==
    CASE self = "Portable" -> 1
      [] self = "SSE41"    -> 4
      [] self = "AVX2"     -> 8

---------------------------------------------------------------------------
(* Flags and the compression function (crate items used by platform.rs) *)

FlagBit(f) ==
    CASE f = "CHUNK_START"         -> 1
      [] f = "CHUNK_END"           -> 2
      [] f = "PARENT"              -> 4
      [] f = "ROOT"                -> 8
      [] f = "KEYED_HASH"          -> 16
      [] f = "DERIVE_KEY_CONTEXT"  -> 32
      [] f = "DERIVE_KEY_MATERIAL" -> 64

RECURSIVE SumBits(_)
SumBits(fs) ==
    IF fs = {} THEN 0
    ELSE LET f == CHOOSE x \in fs : TRUE IN FlagBit(f) + SumBits(fs \ {f})

\* Flags::bits: the u8 an additive bitset of flags stands for
bits(flags) == SumBits(flags)

\* a | b on u8
RECURSIVE BitOr(_, _)
BitOr(a, b) ==
    IF a = 0 THEN b
    ELSE IF b = 0 THEN a
    ELSE (IF a % 2 = 1 \/ b % 2 = 1 THEN 1 ELSE 0) + 2 * BitOr(a \div 2, b \div 2)

\* BLOCK_LEN, the bytes of one block
BLOCK_LEN == 64

\* a caller-supplied or default 32-byte key
Key(name) == <<"key", name>>

\* The compression function: a deterministic function of all five inputs,
\* kept as the term of its inputs (two calls agree only on equal inputs).
compression(cv, block, block_len, counter, flags) ==
    <<"out64", cv, block, block_len, counter, flags>>

\* the first 32 bytes of a 64-byte output: the chaining value carried on
ChainingValue(output) == <<"cv", output>>

\* portable::compress
portable_compress(cv, block, block_len, offset, flags) ==
    compression(cv, block, block_len, offset, flags)

\* sse41::compress: byte-identical to the reference
sse41_compress(cv, block, block_len, offset, flags) ==
    compression(cv, block, block_len, offset, flags)

\* the flags of block k of n: flags on every block, flags_start on the first,
\* flags_end on the last
block_flags(k, n, flags, flags_start, flags_end) ==
    BitOr(BitOr(flags, IF k = 1 THEN flags_start ELSE 0),
          IF k = n THEN flags_end ELSE 0)

\* hash1: one input's blocks compressed in sequence from the key, the running
\* chaining value carried block to block
RECURSIVE hash1_from(_, _, _, _, _, _, _)
hash1_from(k, cv, input, counter, flags, flags_start, flags_end) ==
    IF k > Len(input) THEN cv
    ELSE hash1_from(k + 1,
            ChainingValue(compression(cv, input[k], BLOCK_LEN, counter,
                block_flags(k, Len(input), flags, flags_start, flags_end))),
            input, counter, flags, flags_start, flags_end)

hash1(input, key, counter, flags, flags_start, flags_end) ==
    hash1_from(1, key, input, counter, flags, flags_start, flags_end)

\* hashN: `degree` inputs starting after `base`, in lock-step: all lanes take
\* block k before any lane takes block k + 1
RECURSIVE hashN_from(_, _, _, _, _)
hashN_from(k, cvs, degree, base, a) ==
    LET n == Len(a.inputs[base + 1]) IN
    IF k > n THEN cvs
    ELSE hashN_from(k + 1,
            [lane \in 1..degree |->
                ChainingValue(compression(cvs[lane], a.inputs[base + lane][k],
                    BLOCK_LEN, a.offset + a.offset_deltas[base + lane - 1],
                    block_flags(k, n, a.flags, a.flags_start, a.flags_end)))],
            degree, base, a)

hashN(degree, base, a) ==
    hashN_from(1, [lane \in 1..degree |-> a.key], degree, base, a)

\* portable::hash_many: every input on its own, in input order
portable_hash_many(a) ==
    [out |-> [j \in 1..Len(a.out) |->
                IF j <= Len(a.inputs)
                THEN hash1(a.inputs[j], a.key, a.offset + a.offset_deltas[j - 1],
                           a.flags, a.flags_start, a.flags_end)
                ELSE a.out[j]],
     batches |-> [j \in 1..Len(a.inputs) |-> 1]]

\* An accelerated hash_many: full groups of `degree` inputs go through hashN;
\* the inputs left over, fewer than one group, go through the scalar path.
RECURSIVE simd_hash_many_from(_, _, _, _)
simd_hash_many_from(base, st, degree, a) ==
    IF Len(a.inputs) - base >= degree
    THEN LET cvs == hashN(degree, base, a) IN
         simd_hash_many_from(base + degree,
            [out |-> [j \in 1..Len(st.out) |->
                        IF base < j /\ j <= base + degree
                        THEN cvs[j - base] ELSE st.out[j]],
             batches |-> Append(st.batches, degree)],
            degree, a)
    ELSE [out |-> [j \in 1..Len(st.out) |->
                        IF base < j /\ j <= Len(a.inputs)
                        THEN hash1(a.inputs[j], a.key,
                                   a.offset + a.offset_deltas[j - 1],
                                   a.flags, a.flags_start, a.flags_end)
                        ELSE st.out[j]],
          batches |-> st.batches \o [j \in 1..(Len(a.inputs) - base) |-> 1]]

\* sse41::DEGREE and avx2::DEGREE, the lanes of one group
DEGREE(impl) ==
    CASE impl = "sse41" -> 4
      [] impl = "avx2"  -> 8

\* sse41::hash_many
sse41_hash_many(a) ==
    simd_hash_many_from(0, [out |-> a.out, batches |-> <<>>], DEGREE("sse41"), a)

\* avx2::hash_many
avx2_hash_many(a) ==
    simd_hash_many_from(0, [out |-> a.out, batches |-> <<>>], DEGREE("avx2"), a)

\* The instruction-set extension an implementation module is compiled for
Requires(module) ==
    CASE module = "portable" -> "none"
      [] module = "sse41"    -> "sse4.1"
      [] module = "avx2"     -> "avx2"

\* Whether this processor executes the instructions of an extension
Executes(feature) ==
    CASE feature = "none"   -> TRUE
      [] feature = "sse4.1" -> cpu_sse41
      [] feature = "avx2"   -> cpu_avx2

---------------------------------------------------------------------------
(* Dispatch *)

\* Platform::compress: the implementation call it makes
compress(self, cv, block, block_len, offset, flags) ==
    CASE self = "Portable" ->
            [module |-> "portable", fn |-> "compress", cv |-> cv, block |-> block,
             block_len |-> block_len, offset |-> offset, flags |-> bits(flags)]
      [] self \in {"SSE41", "AVX2"} ->
            [module |-> "sse41", fn |-> "compress", cv |-> cv, block |-> block,
             block_len |-> block_len, offset |-> offset, flags |-> bits(flags)]

\* variation: first-block and last-block flags exchanged on the way through
hash_many_flags_swapped(self, inputs, key, offset, offset_deltas, flags, flags_start, flags_end, out) ==
    [module |-> CASE self = "Portable" -> "portable"
                  [] self = "SSE41"    -> "sse41"
                  [] self = "AVX2"     -> "avx2",
     fn |-> "hash_many", inputs |-> inputs, key |-> key, offset |-> offset,
     offset_deltas |-> offset_deltas, flags |-> bits(flags),
     flags_start |-> bits(flags_end), flags_end |-> bits(flags_start),
     out |-> out]

\* Platform::hash_many: the implementation call it makes
hash_many(self, inputs, key, offset, offset_deltas, flags, flags_start, flags_end, out) ==
    CASE self = "Portable" ->
            [module |-> "portable", fn |-> "hash_many", inputs |-> inputs,
             key |-> key, offset |-> offset, offset_deltas |-> offset_deltas,
             flags |-> bits(flags), flags_start |-> bits(flags_start),
             flags_end |-> bits(flags_end), out |-> out]
      [] self = "SSE41" ->
            [module |-> "sse41", fn |-> "hash_many", inputs |-> inputs,
             key |-> key, offset |-> offset, offset_deltas |-> offset_deltas,
             flags |-> bits(flags), flags_start |-> bits(flags_start),
             flags_end |-> bits(flags_end), out |-> out]
      [] self = "AVX2" ->
            [module |-> "avx2", fn |-> "hash_many", inputs |-> inputs,
             key |-> key, offset |-> offset, offset_deltas |-> offset_deltas,
             flags |-> bits(flags), flags_start |-> bits(flags_start),
             flags_end |-> bits(flags_end), out |-> out]

\* What a forwarded call computes when its module's instructions execute
Run(c) ==
    CASE c.fn = "compress" /\ c.module = "portable" ->
            [status |-> "ok",
             out |-> portable_compress(c.cv, c.block, c.block_len, c.offset, c.flags)]
      [] c.fn = "compress" /\ c.module = "sse41" ->
            [status |-> "ok",
             out |-> sse41_compress(c.cv, c.block, c.block_len, c.offset, c.flags)]
      [] c.fn = "hash_many" /\ c.module = "portable" ->
            [status |-> "ok"] @@ portable_hash_many(c)
      [] c.fn = "hash_many" /\ c.module = "sse41" ->
            [status |-> "ok"] @@ sse41_hash_many(c)
      [] c.fn = "hash_many" /\ c.module = "avx2" ->
            [status |-> "ok"] @@ avx2_hash_many(c)

\* Whether a forwarded call reaches an instruction of its module's extension:
\* every compress does, a hash_many with no inputs compresses nothing
ReachesExtension(c) ==
    /\ Requires(c.module) # "none"
    /\ c.fn = "hash_many" => Len(c.inputs) > 0

\* The process dies on an illegal instruction: nothing is returned or written
Fault(c) ==
    IF c.fn = "compress" THEN [status |-> "SIGILL", out |-> <<"none">>]
    ELSE [status |-> "SIGILL", out |-> c.out, batches |-> <<>>]

\* An unsafe call that reaches an instruction the processor lacks is undefined
\* behaviour: the process may die on it, or the call may come back.
Outcomes(c) ==
    IF ReachesExtension(c) /\ ~Executes(Requires(c.module))
    THEN {Fault(c), Run(c)}
    ELSE {Run(c)}

---------------------------------------------------------------------------
(* The arguments a caller holds *)

Keys == {Key("IV"), Key("K1")}

\* the arguments of a compress call
CompressArgs ==
    [fn : {"compress"}, cv : Keys, block : {<<0, 1>>, <<0, 2>>},
     block_len : {0, BLOCK_LEN}, offset : {0, 5},
     flags : {{}, {"CHUNK_START", "ROOT"}}]

\* key, offset, offset_deltas and the three flags values of a hash_many call:
\* chunks, keyed chunks further on, parents, and an irregular table with three
\* different flags values
HashManyProfiles ==
    {[key |-> Key("IV"), offset |-> 0,
      offset_deltas |-> [i \in 0..(OFFSET_DELTAS_LEN - 1) |-> 3 * i],
      flags |-> {}, flags_start |-> {"CHUNK_START"}, flags_end |-> {"CHUNK_END"}],
     [key |-> Key("K1"), offset |-> 48,
      offset_deltas |-> [i \in 0..(OFFSET_DELTAS_LEN - 1) |-> 3 * i],
      flags |-> {"KEYED_HASH"}, flags_start |-> {"CHUNK_START"},
      flags_end |-> {"CHUNK_END"}],
     [key |-> Key("IV"), offset |-> 0,
      offset_deltas |-> [i \in 0..(OFFSET_DELTAS_LEN - 1) |-> 0],
      flags |-> {"PARENT"}, flags_start |-> {}, flags_end |-> {}],
     [key |-> Key("K1"), offset |-> 5,
      offset_deltas |-> [i \in 0..(OFFSET_DELTAS_LEN - 1) |-> (i * i) % 7],
      flags |-> {"DERIVE_KEY_MATERIAL"}, flags_start |-> {"PARENT"},
      flags_end |-> {"ROOT", "CHUNK_END"}]}

\* n inputs of nblocks blocks each, every block different from every other
Inputs(n, nblocks) == [i \in 1..n |-> [k \in 1..nblocks |-> <<i, k>>]]

\* the destination before the call: room for the n chaining values and one more
OutBefore(n) == [j \in 1..(n + 1) |-> <<"old", j>>]

\* the arguments of a hash_many call
HashManyArgs ==
    {[fn |-> "hash_many", inputs |-> Inputs(n, nblocks), out |-> OutBefore(n)]
        @@ prof :
        n \in 0..MaxInputs, nblocks \in 1..MaxBlocks, prof \in HashManyProfiles}

NoCall == [fn |-> "none"]

---------------------------------------------------------------------------
(* Operations *)

Init ==
    /\ arch \in Archs
    /\ std \in BOOLEAN
    /\ tf_sse41 \in BOOLEAN
    /\ tf_avx2 \in BOOLEAN
    /\ cpu_sse41 \in BOOLEAN
    /\ cpu_avx2 \in BOOLEAN
    \* the x86 extensions exist on x86 only
    /\ ~IsX86 => ~(tf_sse41 \/ tf_avx2 \/ cpu_sse41 \/ cpu_avx2)
    \* a build for avx2 is a build for sse4.1, and a binary built for an
    \* extension runs on processors that have it
    /\ tf_avx2 => tf_sse41
    /\ tf_sse41 => cpu_sse41
    /\ tf_avx2 => cpu_avx2
    /\ args \in CompressArgs \cup HashManyArgs
    /\ platform = NoPlatform
    /\ detected = <<>>
    /\ op = "init"
    /\ call = NoCall
    /\ ret = [status |-> "none"]

\* let p = Platform::detect();
Detect ==
    /\ Len(detected) < MaxDetects
    /\ platform' = [variant |-> detect, origin |-> "detect"]
    /\ detected' = Append(detected, detect)
    /\ op' = "detect"
    /\ call' = NoCall
    /\ ret' = [status |-> "ok", variant |-> detect]
    /\ UNCHANGED <<config, args>>

\* let p = Platform::AVX2; the variants of a pub enum are public
Construct(v) ==
    /\ v \in Platform
    /\ platform' = [variant |-> v, origin |-> "literal"]
    /\ op' = "construct"
    /\ call' = NoCall
    /\ ret' = [status |-> "ok", variant |-> v]
    /\ UNCHANGED <<config, args, detected>>

\* p.simd_degree(), with its debug_assert!(degree <= MAX_SIMD_DEGREE)
SimdDegree ==
    /\ platform # NoPlatform
    /\ op' = "simd_degree"
    /\ call' = NoCall
    /\ ret' = [status |-> "ok", degree |-> simd_degree(platform.variant),
               assert_ok |-> simd_degree(platform.variant) <= MAX_SIMD_DEGREE]
    /\ UNCHANGED <<config, args, platform, detected>>

\* p.compress(cv, block, block_len, offset, flags)
Compress ==
    /\ platform # NoPlatform
    /\ args.fn = "compress"
    /\ op' = "compress"
    /\ call' = compress(platform.variant, args.cv, args.block, args.block_len,
                        args.offset, args.flags)
    /\ ret' \in Outcomes(call')
    /\ UNCHANGED <<config, args, platform, detected>>

\* p.hash_many(inputs, key, offset, offset_deltas, flags, flags_start,
\*             flags_end, out)
HashMany ==
    /\ platform # NoPlatform
    /\ args.fn = "hash_many"
    /\ op' = "hash_many"
    /\ call' = hash_many(platform.variant, args.inputs, args.key, args.offset,
                         args.offset_deltas, args.flags, args.flags_start,
                         args.flags_end, args.out)
    /\ ret' \in Outcomes(call')
    /\ UNCHANGED <<config, args, platform, detected>>

Next ==
    \/ Detect
    \/ \E v \in {"Portable", "SSE41", "AVX2"} : Construct(v)
    \/ SimdDegree
    \/ Compress
    \/ HashMany

Spec == Init /\ [][Next]_vars

---------------------------------------------------------------------------
(* Terms the properties are stated in *)

\* The capability of a variant counts as detected when it is a compile-time
\* target feature or, with std, the runtime probe reports it.
CapabilityDetected(v) ==
    CASE v = "Portable" -> TRUE
      [] v = "SSE41"    -> IsX86 /\ (tf_sse41 \/ (std /\ cpu_sse41))
      [] v = "AVX2"     -> IsX86 /\ (tf_avx2 \/ (std /\ cpu_avx2))

\* The capability check that guards an implementation module
ModuleChecked(module) ==
    CASE module = "portable" -> TRUE
      [] module = "sse41"    -> CapabilityDetected("SSE41")
      [] module = "avx2"     -> CapabilityDetected("AVX2")

RECURSIVE IsPowerOfTwo(_)
IsPowerOfTwo(n) ==
    IF n = 1 THEN TRUE
    ELSE IF n < 1 \/ n % 2 = 1 THEN FALSE
    ELSE IsPowerOfTwo(n \div 2)

\* The scalar reference: the chaining value after the first k blocks of input i
\* of the caller's hash_many arguments, by portable::compress alone
RECURSIVE ScalarCV(_, _)
ScalarCV(i, k) ==
    IF k = 0 THEN args.key
    ELSE LET n == Len(args.inputs[i])
             f == BitOr(bits(args.flags),
                        BitOr(IF k = 1 THEN bits(args.flags_start) ELSE 0,
                              IF k = n THEN bits(args.flags_end) ELSE 0))
         IN  ChainingValue(portable_compress(ScalarCV(i, k - 1),
                args.inputs[i][k], BLOCK_LEN,
                args.offset + args.offset_deltas[i - 1], f))

Accelerated == {"sse41", "avx2"}

Dispatched == op \in {"compress", "hash_many"}

---------------------------------------------------------------------------
(* Properties *)

\* C1: an accelerated implementation is invoked only on a Platform value that
\* detect() produced after the matching capability check succeeded, and a
\* caller holds an accelerated variant only through detect().
C1_AcceleratedOnlyThroughDetect ==
    (Dispatched /\ call.module \in Accelerated) =>
        /\ platform.origin = "detect"
        /\ CapabilityDetected(platform.variant)

\* C2: detect() returns AVX2 when avx2 is detected, otherwise SSE41 when sse4.1
\* is detected, otherwise Portable, and Portable on every other architecture;
\* what it returns is the supported variant of the largest simd_degree().
C2_DetectReturnsBest ==
    op = "detect" =>
        /\ ret.variant =
              (IF ~IsX86 THEN "Portable"
               ELSE IF CapabilityDetected("AVX2") THEN "AVX2"
               ELSE IF CapabilityDetected("SSE41") THEN "SSE41"
               ELSE "Portable")
        /\ ret.variant \in Platform
        /\ CapabilityDetected(ret.variant)
        /\ \A w \in Platform :
              CapabilityDetected(w) => simd_degree(w) <= simd_degree(ret.variant)

\* C2 witness: both capabilities are detected and detect() has returned AVX2
C2_Witness ==
    /\ op = "detect"
    /\ CapabilityDetected("SSE41")
    /\ CapabilityDetected("AVX2")
    /\ ret.variant = "AVX2"

\* C3: compress on every variant returns the 64 bytes portable::compress
\* returns on the same inputs.
C3_CompressEqualsPortable ==
    op = "compress" =>
        /\ ret.status = "ok"
        /\ ret.out = portable_compress(args.cv, args.block, args.block_len,
                                       args.offset, bits(args.flags))

\* C4: hash_many writes, at position i of out, the chaining value of the
\* scalar compression of input i's blocks in sequence from the key.
C4_HashManyEqualsScalar ==
    op = "hash_many" =>
        /\ ret.status = "ok"
        /\ \A i \in 1..Len(args.inputs) :
              ret.out[i] = ScalarCV(i, Len(args.inputs[i]))

\* C5: no operation changes what detect() returns, and every detect() call
\* returns what every earlier one returned.
C5_DetectStable ==
    [][/\ config' = config
       /\ detect' = detect
       /\ op' = "detect" =>
            \A i \in 1..Len(detected) : ret'.variant = detected[i]]_vars

\* C5 witness: a second detect() call has returned, after an accelerated first
C5_Witness ==
    /\ op = "detect"
    /\ Len(detected) >= 2
    /\ detected[1] = "AVX2"

\* C6: simd_degree() is 1 for Portable, 4 for SSE41 and 8 for AVX2, a power of
\* two larger than 1 on every accelerated variant, and no variant whose
\* capability is detected has a larger degree than the one detect() prefers.
C6_DegreeTable ==
    op = "simd_degree" =>
        /\ platform.variant = "Portable" => ret.degree = 1
        /\ platform.variant = "SSE41" => ret.degree = 4
        /\ platform.variant = "AVX2" => ret.degree = 8
        /\ platform.variant # "Portable" =>
              (ret.degree > 1 /\ IsPowerOfTwo(ret.degree))
        /\ platform.origin = "detect" =>
              \A w \in Platform :
                  CapabilityDetected(w) => simd_degree(w) <= ret.degree

\* C6 witness: simd_degree() has returned on the variant detect() chose, with
\* the less preferred accelerated variant supported too
C6_Witness ==
    /\ op = "simd_degree"
    /\ platform = [variant |-> "AVX2", origin |-> "detect"]
    /\ CapabilityDetected("SSE41")
    /\ ret.degree = 8

C8_AssertHolds ==
    op = "simd_degree" =>
        /\ ret.assert_ok
        /\ ret.degree <= MAX_SIMD_DEGREE
        /\ \A v \in Platform : simd_degree(v) <= MAX_SIMD_DEGREE
        /\ \E v \in Platform : simd_degree(v) = MAX_SIMD_DEGREE

\* C8 witness: simd_degree() has returned the build's MAX_SIMD_DEGREE
C8_Witness ==
    /\ op = "simd_degree"
    /\ IsX86
    /\ ret.degree = MAX_SIMD_DEGREE
    /\ ret.assert_ok

\* C9: the implementation compress() runs on a detected variant is one whose
\* own capability check succeeded: when detect() returned AVX2, sse4.1 is
\* detected too.
C9_CompressImplChecked ==
    (op = "compress" /\ platform.origin = "detect") => ModuleChecked(call.module)

\* C10: compress and hash_many forward every argument unmodified and in its
\* position to one implementation, leave the Platform value and the inputs
\* as they were, and write only the chaining values of out.
C10_DispatchFrame ==
    [][(op' \in {"compress", "hash_many"}) =>
        /\ platform' = platform
        /\ args' = args
        /\ detected' = detected
        /\ config' = config
        /\ call'.fn = args.fn
        /\ call'.module \in {"portable", "sse41", "avx2"}
        /\ op' = "compress" =>
              /\ call'.cv = args.cv
              /\ call'.block = args.block
              /\ call'.block_len = args.block_len
              /\ call'.offset = args.offset
              /\ call'.flags = bits(args.flags)
        /\ op' = "hash_many" =>
              /\ call'.inputs = args.inputs
              /\ call'.key = args.key
              /\ call'.offset = args.offset
              /\ call'.offset_deltas = args.offset_deltas
              /\ call'.flags = bits(args.flags)
              /\ call'.flags_start = bits(args.flags_start)
              /\ call'.flags_end = bits(args.flags_end)
              /\ call'.out = args.out
              /\ Len(ret'.out) = Len(args.out)
              /\ \A j \in (Len(args.inputs) + 1)..Len(args.out) :
                    ret'.out[j] = args.out[j]]_vars

\* C10 witness: AVX2 has forwarded a hash_many call whose three flags values
\* all differ
C10_Witness ==
    /\ op = "hash_many"
    /\ call.module = "avx2"
    /\ call.flags # call.flags_start
    /\ call.flags_start # call.flags_end
    /\ call.flags # call.flags_end
    /\ Len(call.inputs) > 0

\* Where the processor executes the dispatched module, compress and hash_many
\* return what the scalar reference returns.
EquivalentWhereExecutable ==
    (Dispatched /\ (Executes(Requires(call.module)) \/ ~ReachesExtension(call))) =>
        /\ C3_CompressEqualsPortable
        /\ C4_HashManyEqualsScalar

====
